---- MODULE Spec2Model ----
(***************************************************************************)
(* Model of the second chance cache of cache.go (package cache).           *)
(*                                                                         *)
(* The cache is a table of items, an index of keys to table positions, a   *)
(* bit map of ejectable items made of machine words, and a clock hand      *)
(* (word index and mask of the bits of that word still to examine).        *)
(*                                                                         *)
(* The source uses 64 bit words.  The model keeps the word arithmetic      *)
(* (masks, shifts that overflow to zero, trailing zero count) on words of  *)
(* WordBits bits, so that a table of one or two words can be explored      *)
(* exhaustively.  Keys and values are Go ints: 0 is the zero value of      *)
(* both and is also a legal key and a legal value.                         *)
(***************************************************************************)
EXTENDS Integers, Sequences, FiniteSets, Bags, TLC

\* Width of a bit map word (64 in the source).
WordBits == 2

\* Largest size passed to New.
MaxSize == 3

\* Number of distinct keys the callers use: 0 .. NumKeys-1.
NumKeys == 5

\* Number of distinct values the callers use: 0 .. NumVals-1.
NumVals == 2

\* Largest position at which the consumer of Items stops the iteration.
MaxBreak == 1

\* Number of distinct keys used by the callers that also call Init.
NumInitKeys == 3

\* Number of goroutines that call the cache concurrently.
NumProcs == 2

\* Number of distinct keys used by the concurrent callers.
NumGoKeys == 3

Keys == 0 .. (NumKeys - 1)
Vals == 0 .. (NumVals - 1)
Sizes == 1 .. MaxSize
InitKeys == 0 .. (NumInitKeys - 1)
Procs == 1 .. NumProcs
GoKeys == 0 .. (NumGoKeys - 1)
\* the sizes passed to Init: negative, zero and positive
InitSizes == (0 - MaxSize) .. MaxSize

VARIABLES
    idx,        \* c.idx: index of keys to items, a function on the present keys
    items,      \* c.items: table of cached items, positions 0 .. Cap-1
    bits,       \* c.bits: bit map words, positions 0 .. Cap/WordBits-1
    handIdx,    \* c.handIdx
    handMask,   \* c.handMask
    len,        \* c.len
    ret,        \* the last call and what it returned
    added,      \* history: key -> value of the last Add of the key that no
                \* later eviction, Delete, or Reset has undone
    lastGet,    \* history: the key of the preceding call when it was a Get
                \* that found its key ejectable in a full cache, else NoKey
    mu,         \* c.mu: the goroutine that holds the lock (0 when none) and
                \* the goroutines that hold the read lock
    pc          \* of each goroutine that calls the cache concurrently: its
                \* call, its place in the code and its local variables

vars == <<idx, items, bits, handIdx, handMask, len, ret, added, lastGet, mu, pc>>

\* the state of the concurrent callers
procs == <<mu, pc>>

----------------------------------------------------------------------------
(* Word arithmetic on WordBits bits.                                       *)

Pow2(n) == 2 ^ n

\* ^uint64(0)
AllOnes == Pow2(WordBits) - 1

\* bit p of word x is set
BitSet(x, p) == (x \div Pow2(p)) % 2 = 1

\* x & y
And(x, y) ==
    LET f[p \in 0 .. WordBits] ==
            IF p = WordBits THEN 0
            ELSE (IF BitSet(x, p) /\ BitSet(y, p) THEN Pow2(p) ELSE 0) + f[p + 1]
    IN  f[0]

\* x | y
Or(x, y) ==
    LET f[p \in 0 .. WordBits] ==
            IF p = WordBits THEN 0
            ELSE (IF BitSet(x, p) \/ BitSet(y, p) THEN Pow2(p) ELSE 0) + f[p + 1]
    IN  f[0]

\* ^x
Not(x) == AllOnes - x

\* x << n, the bits shifted out are lost
Shl(x, n) == (x * Pow2(n)) % Pow2(WordBits)

\* bits.TrailingZeros64(x)
TrailingZeros64(x) ==
    IF x = 0 THEN WordBits
    ELSE CHOOSE p \in 0 .. (WordBits - 1) :
            BitSet(x, p) /\ \A q \in 0 .. (p - 1) : ~BitSet(x, q)

----------------------------------------------------------------------------
(* The cache.                                                              *)

\* item[K, V]{}
ZeroItem == [key |-> 0, value |-> 0, bit |-> 0]

\* the empty map
EmptyIdx == [k \in {} |-> 0]

\* delete(c.idx, key)
MapDelete(m, key) == [k \in (DOMAIN m) \ {key} |-> m[k]]

\* c.idx[key] = i
MapSet(m, key, i) == [k \in (DOMAIN m) \cup {key} |-> IF k = key THEN i ELSE m[k]]

\* Cap()
Cap == Cardinality(DOMAIN items)

\* Len()
CacheLen == len

\* len(c.bits)
NumWords == Cardinality(DOMAIN bits)

\* size = (size + 63) & ^63
RoundUp(size) == ((size + (WordBits - 1)) \div WordBits) * WordBits

\* if c.handIdx++; c.handIdx == len(c.bits) { c.handIdx = 0 }
NextWord(h) == IF h + 1 = NumWords THEN 0 ELSE h + 1

\* the fields of the cache
Cache ==
    [idx |-> idx, items |-> items, bits |-> bits,
     handIdx |-> handIdx, handMask |-> handMask, len |-> len]

\* a call that returned: the method, its arguments (key, arg), its results
\* (val, ok, and pairs for Items) and the cache as the call found it
Ret(op, key, arg, val, ok) ==
    [op |-> op, key |-> key, arg |-> arg, val |-> val, ok |-> ok,
     pairs |-> EmptyBag, pre |-> Cache]

\* no call is in progress: the caller is between two calls
NoCall ==
    [op |-> "none", key |-> 0, arg |-> 0, val |-> 0, ok |-> FALSE,
     pairs |-> EmptyBag, pre |-> 0]

\* no key: the key after the last one
NoKey == NumKeys

\* sync.RWMutex, unlocked
Unlocked == [w |-> 0, r |-> {}]

\* A goroutine in the call of the method op with the arguments key and arg,
\* at the place at of its code ("done" once it has returned), with the
\* results val and ok, the local variables idx and mbits, the keys seen
\* by the loop of Items, and the count loads of the words of the bit map
\* that the search of Add has loaded (history, kept where the search is
\* followed load by load).
Call(op, key, arg, at) ==
    [op |-> op, key |-> key, arg |-> arg, at |-> at, idx |-> 0, val |-> 0,
     ok |-> FALSE, mbits |-> 0, seen |-> {}, loads |-> 0]

\* a goroutine that has made no call yet
Idle == Call("none", 0, 0, "done")

\* a goroutine back from a call of the method op of which it keeps ok
Returned(op, ok) == [Call(op, 0, 0, "done") EXCEPT !.ok = ok]

\* the caller has the results of its last call and goes on
Return ==
    /\ ret # NoCall
    /\ ret' = NoCall
    /\ lastGet' = IF ret.op = "Get" THEN lastGet ELSE NoKey
    /\ UNCHANGED <<idx, items, bits, handIdx, handMask, len, added>>
    /\ UNCHANGED procs

\* New(size), which is Init(size) on a new Cache
New(size) ==
    /\ idx = EmptyIdx
    /\ items = [i \in 0 .. (RoundUp(size) - 1) |-> ZeroItem]
    /\ bits = [w \in 0 .. ((RoundUp(size) \div WordBits) - 1) |->
                  IF w = 0 THEN AllOnes ELSE 0]
    /\ handIdx = 0
    /\ handMask = AllOnes
    /\ len = 0
    /\ ret = [Ret("New", 0, size, 0, FALSE) EXCEPT !.pre = 0]
    /\ added = EmptyIdx
    /\ lastGet = NoKey
    /\ mu = Unlocked
    /\ pc = [t \in Procs |-> Idle]

Init == \E size \in Sizes : New(size)

\* Reset()
Reset ==
    /\ ret = NoCall
    /\ idx' = EmptyIdx
    /\ len' = 0
    /\ items' = [i \in DOMAIN items |-> ZeroItem]
    /\ handIdx' = 0
    /\ handMask' = AllOnes
    /\ UNCHANGED bits
    /\ ret' = Ret("Reset", 0, 0, 0, FALSE)
    /\ added' = EmptyIdx
    /\ UNCHANGED lastGet
    /\ UNCHANGED procs

\* the Get that leaves the bit of the item as it is
GetLeavesBit(key) ==
    /\ ret = NoCall
    /\ IF key \in DOMAIN idx
       THEN ret' = Ret("Get", key, 0, items[idx[key]].value, TRUE)
       ELSE ret' = Ret("Get", key, 0, 0, FALSE)
    /\ UNCHANGED <<idx, items, bits, handIdx, handMask, len, added>>
    /\ UNCHANGED procs

\* Get(key); the history lastGet is left to the specifications
Get(key) ==
    /\ ret = NoCall
    /\ IF key \in DOMAIN idx
       THEN /\ bits' = [bits EXCEPT ![idx[key] \div WordBits] =
                            And(@, items[idx[key]].bit)]
            /\ ret' = Ret("Get", key, 0, items[idx[key]].value, TRUE)
       ELSE /\ UNCHANGED bits
            /\ ret' = Ret("Get", key, 0, 0, FALSE)
    /\ UNCHANGED <<idx, items, handIdx, handMask, len, added>>
    /\ UNCHANGED procs

\* Has(key) that marks the item as referenced, as Get does
HasTouches(key) ==
    /\ ret = NoCall
    /\ ret' = Ret("Has", key, 0, 0, key \in DOMAIN idx)
    /\ IF key \in DOMAIN idx
       THEN bits' = [bits EXCEPT ![idx[key] \div WordBits] =
                         And(@, items[idx[key]].bit)]
       ELSE UNCHANGED bits
    /\ UNCHANGED <<idx, items, handIdx, handMask, len, added, lastGet>>
    /\ UNCHANGED procs

\* Has(key)
Has(key) ==
    /\ ret = NoCall
    /\ ret' = Ret("Has", key, 0, 0, key \in DOMAIN idx)
    /\ UNCHANGED <<idx, items, bits, handIdx, handMask, len, added, lastGet>>
    /\ UNCHANGED procs

\* The words after the one of the hand: each word without an ejectable bit
\* is set to all ones, up to the first word with one.
RECURSIVE SweepLoop(_, _)
SweepLoop(b, h) ==
    IF b[h] # 0
    THEN [bits |-> b, handIdx |-> h, handMask |-> AllOnes, mbits |-> b[h]]
    ELSE SweepLoop([b EXCEPT ![h] = AllOnes], NextWord(h))

\* the search that examines the whole word of the hand, not only the bits of
\* c.handMask
SweepWholeWord ==
    LET mbits == bits[handIdx]
    IN  IF mbits = 0
        THEN SweepLoop([bits EXCEPT ![handIdx] = Or(@, handMask)], NextWord(handIdx))
        ELSE [bits |-> bits, handIdx |-> handIdx, handMask |-> handMask, mbits |-> mbits]

\* the search that stores all ones in the word of the hand when it finds no
\* bit to eject under c.handMask
SweepStoresAllOnes ==
    LET mbits == And(bits[handIdx], handMask)
    IN  IF mbits = 0
        THEN SweepLoop([bits EXCEPT ![handIdx] = AllOnes], NextWord(handIdx))
        ELSE [bits |-> bits, handIdx |-> handIdx, handMask |-> handMask, mbits |-> mbits]

\* The search of the item to eject, run by Add when the cache is full: the
\* bit map, the hand and mbits once the hand is on a word with a bit to eject.
Sweep ==
    LET mbits == And(bits[handIdx], handMask)
    IN  IF mbits = 0
        THEN SweepLoop([bits EXCEPT ![handIdx] = Or(@, handMask)], NextWord(handIdx))
        ELSE [bits |-> bits, handIdx |-> handIdx, handMask |-> handMask, mbits |-> mbits]

\* the override that reads oldValue once the value is written
AddOverrideReadsLate(key, value) ==
    /\ ret = NoCall
    /\ key \in DOMAIN idx
    /\ items' = [items EXCEPT ![idx[key]].value = value]
    /\ bits' = [bits EXCEPT ![idx[key] \div WordBits] = And(@, items[idx[key]].bit)]
    /\ ret' = Ret("Add", key, value, value, TRUE)
    /\ added' = MapSet(added, key, value)
    /\ UNCHANGED <<idx, handIdx, handMask, len, lastGet>>
    /\ UNCHANGED procs

\* Add(key, value) when the key is in the cache: override the value
AddOverride(key, value) ==
    /\ ret = NoCall
    /\ key \in DOMAIN idx
    /\ items' = [items EXCEPT ![idx[key]].value = value]
    /\ bits' = [bits EXCEPT ![idx[key] \div WordBits] = And(@, items[idx[key]].bit)]
    /\ ret' = Ret("Add", key, value, items[idx[key]].value, TRUE)
    /\ added' = MapSet(added, key, value)
    /\ UNCHANGED <<idx, handIdx, handMask, len, lastGet>>
    /\ UNCHANGED procs

\* the append that leaves the bit of the position as it finds it
AddAppendKeepsBit(key, value) ==
    /\ ret = NoCall
    /\ key \notin DOMAIN idx
    /\ len < Cap
    /\ items' = [items EXCEPT ![len] = [key |-> key, value |-> value,
                                        bit |-> Not(Shl(1, len % WordBits))]]
    /\ idx' = MapSet(idx, key, len)
    /\ len' = len + 1
    /\ ret' = Ret("Add", key, value, 0, FALSE)
    /\ added' = MapSet(added, key, value)
    /\ UNCHANGED <<bits, handIdx, handMask, lastGet>>
    /\ UNCHANGED procs

\* Add(key, value) when the cache is not yet full: append the item
AddAppend(key, value) ==
    /\ ret = NoCall
    /\ key \notin DOMAIN idx
    /\ len < Cap
    /\ LET bit == Not(Shl(1, len % WordBits))
       IN  /\ items' = [items EXCEPT ![len] = [key |-> key, value |-> value, bit |-> bit]]
           /\ bits' = [bits EXCEPT ![len \div WordBits] = And(@, bit)]
    /\ idx' = MapSet(idx, key, len)
    /\ len' = len + 1
    /\ ret' = Ret("Add", key, value, 0, FALSE)
    /\ added' = MapSet(added, key, value)
    /\ UNCHANGED <<handIdx, handMask, lastGet>>
    /\ UNCHANGED procs

\* the index that keeps the key of the ejected item
EjectIdxKeepsOld(key, i) == MapSet(idx, key, i)

\* delete(c.idx, c.items[idx].key); c.idx[key] = idx
EjectIdx(key, i) == MapSet(MapDelete(idx, items[i].key), key, i)

\* the table whose item i gets the key and keeps the ejected value
EjectItemsKeyOnly(key, value, i) == [items EXCEPT ![i].key = key]

\* c.items[idx].key = key; c.items[idx].value = value
EjectItems(key, value, i) == [items EXCEPT ![i].key = key, ![i].value = value]

\* the ejection that leaves the hand on its word with the mask shifted, also
\* when the mask is shifted out to zero
AddEjectKeepsMask(key, value) ==
    /\ ret = NoCall
    /\ key \notin DOMAIN idx
    /\ ~(len < Cap)
    /\ LET s == Sweep
           bit == TrailingZeros64(s.mbits)
           i == s.handIdx * WordBits + bit
           mask == Shl(AllOnes, bit + 1)
       IN  /\ ret' = Ret("Add", key, value, items[i].value, TRUE)
           /\ idx' = EjectIdx(key, i)
           /\ items' = EjectItems(key, value, i)
           /\ bits' = [s.bits EXCEPT ![s.handIdx] = And(@, items[i].bit)]
           /\ handMask' = mask
           /\ handIdx' = s.handIdx
           /\ added' = MapSet(MapDelete(added, items[i].key), key, value)
    /\ UNCHANGED <<len, lastGet>>
    /\ UNCHANGED procs

\* Add(key, value) when the cache is full: eject an item.
\* c.handIdx*64 | bit is a sum, as bit < 64.
AddEject(key, value) ==
    /\ ret = NoCall
    /\ key \notin DOMAIN idx
    /\ ~(len < Cap)
    /\ LET s == Sweep
           bit == TrailingZeros64(s.mbits)
           i == s.handIdx * WordBits + bit
           mask == Shl(AllOnes, bit + 1)
       IN  /\ ret' = Ret("Add", key, value, items[i].value, TRUE)
           /\ idx' = EjectIdx(key, i)
           /\ items' = EjectItems(key, value, i)
           /\ bits' = [s.bits EXCEPT ![s.handIdx] = And(@, items[i].bit)]
           /\ IF mask = 0
              THEN /\ handMask' = AllOnes
                   /\ handIdx' = NextWord(s.handIdx)
              ELSE /\ handMask' = mask
                   /\ handIdx' = s.handIdx
           /\ added' = MapSet(MapDelete(added, items[i].key), key, value)
    /\ UNCHANGED <<len, lastGet>>
    /\ UNCHANGED procs

\* Add(key, value)
Add(key, value) ==
    \/ AddOverride(key, value)
    \/ AddAppend(key, value)
    \/ AddEject(key, value)

\* the index that forgets the new position of the last item
MovedIdxStale(key, i, n) == MapDelete(idx, key)

\* delete(c.idx, key); c.idx[c.items[c.len].key] = idx
MovedIdx(key, i, n) == MapSet(MapDelete(idx, key), items[n].key, i)

\* the table where only the key of the last item is copied
MovedItemsKeyOnly(i, n) ==
    [items EXCEPT ![i].key = items[n].key,
                  ![n] = ZeroItem]

\* The table once the last item, at n, is copied to i and c.items[c.len] is
\* cleared: the bit of the last item is read from this table.
MovedItems(i, n) ==
    [items EXCEPT ![i].key = items[n].key,
                  ![i].value = items[n].value,
                  ![n] = ZeroItem]

\* the bit map once the ejectable state is copied to position i
MovedBits(i, n) ==
    IF And(bits[n \div WordBits], Not(MovedItems(i, n)[n].bit)) = 0
    THEN [bits EXCEPT ![i \div WordBits] = And(@, MovedItems(i, n)[i].bit)]
    ELSE [bits EXCEPT ![i \div WordBits] = Or(@, Not(MovedItems(i, n)[i].bit))]

\* Delete(key)
Delete(key) ==
    /\ ret = NoCall
    /\ IF key \in DOMAIN idx
       THEN LET i == idx[key]
                n == len - 1
            IN  /\ len' = n
                /\ ret' = Ret("Delete", key, 0, items[i].value, TRUE)
                /\ added' = MapDelete(added, key)
                /\ IF n # i
                   THEN /\ idx' = MovedIdx(key, i, n)
                        /\ items' = MovedItems(i, n)
                        /\ bits' = MovedBits(i, n)
                   ELSE /\ idx' = MapDelete(idx, key)
                        /\ items' = [items EXCEPT ![n] = ZeroItem]
                        /\ UNCHANGED bits
                /\ UNCHANGED <<handIdx, handMask, lastGet>>
       ELSE /\ ret' = Ret("Delete", key, 0, 0, FALSE)
            /\ UNCHANGED <<idx, items, bits, handIdx, handMask, len, added, lastGet>>
    /\ UNCHANGED procs

\* The sets of keys range c.idx may have visited when the loop ends.  The
\* order of a range over a map is unspecified and each key is visited once:
\* a consumer that stops at the pair number stop has seen any stop keys, one
\* that never stops (stop = 0) or stops beyond the last pair has seen all.
Visited(stop) ==
    IF stop = 0 \/ stop >= Cardinality(DOMAIN idx)
    THEN {DOMAIN idx}
    ELSE {S \in SUBSET (DOMAIN idx) : Cardinality(S) = stop}

\* the iteration that yields the key of the item in place of its value
RECURSIVE YieldedKeys(_)
YieldedKeys(S) ==
    IF S = {} THEN EmptyBag
    ELSE LET k == CHOOSE x \in S : TRUE
         IN  SetToBag({<<k, items[idx[k]].key>>}) (+) YieldedKeys(S \ {k})

\* yield(k, c.items[idx].value) for the keys of S
RECURSIVE Yielded(_)
Yielded(S) ==
    IF S = {} THEN EmptyBag
    ELSE LET k == CHOOSE x \in S : TRUE
         IN  SetToBag({<<k, items[idx[k]].value>>}) (+) Yielded(S \ {k})

\* Items() iterated by a consumer that stops at the pair number stop (yield
\* returns false), or never when stop = 0; ok tells that the loop ran to
\* its end
Items(stop) ==
    /\ ret = NoCall
    /\ \E S \in Visited(stop) :
          ret' = [Ret("Items", 0, stop, 0, stop = 0 \/ stop > Cardinality(DOMAIN idx))
                     EXCEPT !.pairs = Yielded(S)]
    /\ UNCHANGED <<idx, items, bits, handIdx, handMask, len, added, lastGet>>
    /\ UNCHANGED procs

\* Get(key) without the history of the Get calls
GetCall(key) == Get(key) /\ UNCHANGED lastGet

Next ==
    \/ Reset
    \/ \E key \in Keys : GetCall(key)
    \/ \E key \in Keys : Has(key)
    \/ \E key \in Keys, value \in Vals : Add(key, value)
    \/ \E key \in Keys : Delete(key)
    \/ \E stop \in 0 .. MaxBreak : Items(stop)
    \/ Return

Spec == Init /\ [][Next]_vars

\* Get(key) with the history of the Get calls that find their key ejectable
\* in a full cache
GetRemembered(key) ==
    /\ Get(key)
    /\ lastGet' = IF /\ key \in DOMAIN idx
                     /\ len = Cap
                     /\ BitSet(bits[idx[key] \div WordBits], idx[key] % WordBits)
                  THEN key
                  ELSE NoKey

\* the same calls, each Get remembered for the call that follows it
NextAfterGet ==
    \/ Reset
    \/ \E key \in Keys : GetRemembered(key)
    \/ \E key \in Keys : Has(key)
    \/ \E key \in Keys, value \in Vals : Add(key, value)
    \/ \E key \in Keys : Delete(key)
    \/ \E stop \in 0 .. MaxBreak : Items(stop)
    \/ Return

SpecAfterGet == Init /\ [][NextAfterGet]_vars

----------------------------------------------------------------------------
(* The cache declared as a variable (var c Cache[K, V]) and initialized, or *)
(* not, by calls of Init.  A call that panics never returns: the goroutine  *)
(* unwinds with c.mu locked, so that no later call gets into the cache.     *)

\* the zero value of Cache: a nil map, nil slices, zero fields
ZeroValue ==
    /\ idx = EmptyIdx
    /\ items = [i \in {} |-> ZeroItem]
    /\ bits = [w \in {} |-> 0]
    /\ handIdx = 0
    /\ handMask = 0
    /\ len = 0
    /\ ret = NoCall
    /\ added = EmptyIdx
    /\ lastGet = NoKey
    /\ mu = Unlocked
    /\ pc = [t \in Procs |-> Idle]

\* the calls that ended in a panic
Panics == {"Init panics", "Add panics", "Delete panics"}

Panicked == ret.op \in Panics

\* Init(size) on a cache in any state.  The rounding of a negative size is
\* the one of two's complement: \div rounds down as & ^63 does.  A negative
\* rounded size panics in make([]item[K, V], size), once c.idx is made; a
\* zero one panics in c.bits[0].Store, once all the fields but len are set.
\* c.len is not assigned.
InitCall(size) ==
    /\ ret = NoCall
    /\ idx' = EmptyIdx
    /\ added' = EmptyIdx
    /\ IF RoundUp(size) < 0
       THEN /\ ret' = Ret("Init panics", 0, size, 0, FALSE)
            /\ UNCHANGED <<items, bits, handIdx, handMask>>
       ELSE /\ items' = [i \in 0 .. (RoundUp(size) - 1) |-> ZeroItem]
            /\ bits' = [w \in 0 .. ((RoundUp(size) \div WordBits) - 1) |->
                           IF w = 0 THEN AllOnes ELSE 0]
            /\ handIdx' = 0
            /\ handMask' = AllOnes
            /\ ret' = Ret(IF RoundUp(size) = 0 THEN "Init panics" ELSE "Init",
                          0, size, 0, FALSE)
    /\ UNCHANGED <<len, lastGet>>
    /\ UNCHANGED procs

\* Add(key, value) reads c.bits[c.handIdx] out of range: the key is absent,
\* no slot is free and the bit map has no word
AddOutOfRange(key) ==
    /\ key \notin DOMAIN idx
    /\ ~(len < Cap)
    /\ handIdx \notin DOMAIN bits

\* Add(key, value) that panics with index out of range (cache.go:128)
AddPanics(key, value) ==
    /\ ret = NoCall
    /\ AddOutOfRange(key)
    /\ ret' = Ret("Add panics", key, value, 0, FALSE)
    /\ UNCHANGED <<idx, items, bits, handIdx, handMask, len, added, lastGet>>
    /\ UNCHANGED procs

\* Add(key, value) that returns
AddReturns(key, value) == ~AddOutOfRange(key) /\ Add(key, value)

\* Delete(key) reads c.items[c.len] out of range: the key is present, not at
\* the position c.len - 1, which is no position of the table
DeleteOutOfRange(key) ==
    /\ key \in DOMAIN idx
    /\ len - 1 # idx[key]
    /\ (len - 1) \notin DOMAIN items

\* Delete(key) that panics with index out of range (cache.go:178), once the
\* key is deleted from the index and c.len is decremented
DeletePanics(key) ==
    /\ ret = NoCall
    /\ DeleteOutOfRange(key)
    /\ ret' = Ret("Delete panics", key, 0, 0, FALSE)
    /\ idx' = MapDelete(idx, key)
    /\ len' = len - 1
    /\ added' = MapDelete(added, key)
    /\ UNCHANGED <<items, bits, handIdx, handMask, lastGet>>
    /\ UNCHANGED procs

\* Delete(key) that returns
DeleteReturns(key) == ~DeleteOutOfRange(key) /\ Delete(key)

\* the caller of a call that returned goes on
Resume == ~Panicked /\ Return

NextInit ==
    \/ \E size \in InitSizes : InitCall(size)
    \/ Reset
    \/ \E key \in InitKeys : GetCall(key)
    \/ \E key \in InitKeys : Has(key)
    \/ \E key \in InitKeys, value \in Vals : AddReturns(key, value)
    \/ \E key \in InitKeys, value \in Vals : AddPanics(key, value)
    \/ \E key \in InitKeys : DeleteReturns(key)
    \/ \E key \in InitKeys : DeletePanics(key)
    \/ \E stop \in 0 .. MaxBreak : Items(stop)
    \/ Resume

SpecInit == ZeroValue /\ [][NextInit]_vars

----------------------------------------------------------------------------
(* The calls made by goroutines that share the cache, once New has returned.*)
(* A step is a lock operation, an atomic operation on a word of the bit map *)
(* or a run of statements between two of them.  c.mu.RLock() is granted     *)
(* when no goroutine holds the lock, c.mu.Lock() when none holds the lock   *)
(* or the read lock; a goroutine that is not granted the lock waits, which  *)
(* is the same as calling later.  Len() and Cap() take no lock.             *)

\* the variables of the cache and of the sequential caller
cvars == <<idx, items, bits, handIdx, handMask, len>>
svars == <<ret, added, lastGet>>

\* the goroutine t is between two calls
Ready(t) == ret = NoCall /\ pc[t].at = "done"

\* the goroutine t is at the place at of the method op
At(t, op, at) == ret = NoCall /\ pc[t].op = op /\ pc[t].at = at

\* c.mu.RLock() of the method op
RLock(t, op, key) ==
    /\ Ready(t)
    /\ mu.w = 0
    /\ mu' = [mu EXCEPT !.r = @ \cup {t}]
    /\ pc' = [pc EXCEPT ![t] = Call(op, key, 0, "lookup")]
    /\ UNCHANGED <<cvars, svars>>

\* c.mu.Lock() of the method op
Lock(t, op, key, arg, at) ==
    /\ Ready(t)
    /\ mu.w = 0
    /\ mu.r = {}
    /\ mu' = [mu EXCEPT !.w = t]
    /\ pc' = [pc EXCEPT ![t] = Call(op, key, arg, at)]
    /\ UNCHANGED <<cvars, svars>>

\* Get(key) that takes no lock
GoGetNoLock(t, key) ==
    /\ Ready(t)
    /\ pc' = [pc EXCEPT ![t] = Call("Get", key, 0, "lookup")]
    /\ UNCHANGED <<mu, cvars, svars>>

\* Get(key): c.mu.RLock()
GoGet(t, key) == RLock(t, "Get", key)

\* Get: idx, ok = c.idx[key]; value = c.items[idx].value
GetLookup(t) ==
    /\ At(t, "Get", "lookup")
    /\ IF pc[t].key \in DOMAIN idx
       THEN pc' = [pc EXCEPT ![t].idx = idx[pc[t].key],
                             ![t].ok = TRUE,
                             ![t].val = items[idx[pc[t].key]].value,
                             ![t].at = "And"]
       ELSE pc' = [pc EXCEPT ![t].at = "RUnlock"]
    /\ UNCHANGED <<mu, cvars, svars>>

\* the And made of a load and a store: t loads the word, then stores it
\* without the bit of its item
GetAndLoadStore(t) ==
    \/ /\ At(t, "Get", "And")
       /\ pc' = [pc EXCEPT ![t].mbits = bits[pc[t].idx \div WordBits],
                           ![t].at = "Store"]
       /\ UNCHANGED <<mu, cvars, svars>>
    \/ /\ At(t, "Get", "Store")
       /\ bits' = [bits EXCEPT ![pc[t].idx \div WordBits] =
                        And(pc[t].mbits, items[pc[t].idx].bit)]
       /\ pc' = [pc EXCEPT ![t].at = "RUnlock"]
       /\ UNCHANGED <<mu, idx, items, handIdx, handMask, len, svars>>

\* Get: c.bits[idx/64].And(c.items[idx].bit), atomic
GetAnd(t) ==
    /\ At(t, "Get", "And")
    /\ bits' = [bits EXCEPT ![pc[t].idx \div WordBits] =
                     And(@, items[pc[t].idx].bit)]
    /\ pc' = [pc EXCEPT ![t].at = "RUnlock"]
    /\ UNCHANGED <<mu, idx, items, handIdx, handMask, len, svars>>

\* Has(key): c.mu.RLock()
GoHas(t, key) == RLock(t, "Has", key)

\* Has: _, ok := c.idx[key]
HasLookup(t) ==
    /\ At(t, "Has", "lookup")
    /\ pc' = [pc EXCEPT ![t].ok = pc[t].key \in DOMAIN idx,
                        ![t].at = "RUnlock"]
    /\ UNCHANGED <<mu, cvars, svars>>

\* Get, Has: c.mu.RUnlock(); return
RUnlock(t) ==
    /\ ret = NoCall
    /\ pc[t].at = "RUnlock"
    /\ mu' = [mu EXCEPT !.r = @ \ {t}]
    /\ pc' = [pc EXCEPT ![t] = Returned(pc[t].op, pc[t].ok)]
    /\ UNCHANGED <<cvars, svars>>

\* Add, Delete, Reset, Items: c.mu.Unlock(); return
Unlock(t) ==
    /\ ret = NoCall
    /\ pc[t].at = "Unlock"
    /\ mu' = [mu EXCEPT !.w = 0]
    /\ pc' = [pc EXCEPT ![t] = Returned(pc[t].op, pc[t].ok)]
    /\ UNCHANGED <<cvars, svars>>

\* Add(key, value): c.mu.Lock()
GoAdd(t, key, value) == Lock(t, "Add", key, value, "lookup")

\* Add: idx, ok = c.idx[key], and c.len < len(c.items) when the key is absent
AddLookup(t) ==
    /\ At(t, "Add", "lookup")
    /\ IF pc[t].key \in DOMAIN idx
       THEN pc' = [pc EXCEPT ![t].idx = idx[pc[t].key], ![t].ok = TRUE,
                             ![t].at = "override"]
       ELSE IF len < Cap
       THEN pc' = [pc EXCEPT ![t].at = "append"]
       ELSE pc' = [pc EXCEPT ![t].at = "sweep"]
    /\ UNCHANGED <<mu, cvars, svars>>

\* Add, the key is in the cache: oldValue = c.items[idx].value;
\* c.items[idx].value = value; c.bits[idx/64].And(c.items[idx].bit)
AddOverrideValue(t) ==
    /\ At(t, "Add", "override")
    /\ items' = [items EXCEPT ![pc[t].idx].value = pc[t].arg]
    /\ bits' = [bits EXCEPT ![pc[t].idx \div WordBits] =
                     And(@, items[pc[t].idx].bit)]
    /\ pc' = [pc EXCEPT ![t].val = items[pc[t].idx].value, ![t].at = "Unlock"]
    /\ UNCHANGED <<mu, idx, handIdx, handMask, len, svars>>

\* Add, the cache is not full: the item c.items[c.len] and its bit
AddAppendItem(t) ==
    /\ At(t, "Add", "append")
    /\ LET bit == Not(Shl(1, len % WordBits))
       IN  /\ items' = [items EXCEPT ![len] =
                            [key |-> pc[t].key, value |-> pc[t].arg, bit |-> bit]]
           /\ bits' = [bits EXCEPT ![len \div WordBits] = And(@, bit)]
    /\ pc' = [pc EXCEPT ![t].at = "index"]
    /\ UNCHANGED <<mu, idx, handIdx, handMask, len, svars>>

\* Add, the cache is not full: c.idx[key] = c.len; c.len++
AddAppendIdx(t) ==
    /\ At(t, "Add", "index")
    /\ idx' = MapSet(idx, pc[t].key, len)
    /\ len' = len + 1
    /\ pc' = [pc EXCEPT ![t].at = "Unlock"]
    /\ UNCHANGED <<mu, items, bits, handIdx, handMask, svars>>

\* Add, the cache is full: the search of the item to eject, mbits and
\* idx = c.handIdx*64 | bit
AddSweep(t) ==
    /\ At(t, "Add", "sweep")
    /\ LET s == Sweep
       IN  /\ bits' = s.bits
           /\ handIdx' = s.handIdx
           /\ handMask' = s.handMask
           /\ pc' = [pc EXCEPT ![t].mbits = s.mbits,
                               ![t].idx = s.handIdx * WordBits + TrailingZeros64(s.mbits),
                               ![t].at = "eject"]
    /\ UNCHANGED <<mu, idx, items, len, svars>>

\* Add, the cache is full: oldValue = c.items[idx].value; ok = true;
\* delete(c.idx, c.items[idx].key); c.idx[key] = idx
AddEjectIdx(t) ==
    /\ At(t, "Add", "eject")
    /\ idx' = EjectIdx(pc[t].key, pc[t].idx)
    /\ pc' = [pc EXCEPT ![t].val = items[pc[t].idx].value, ![t].ok = TRUE,
                        ![t].at = "write"]
    /\ UNCHANGED <<mu, items, bits, handIdx, handMask, len, svars>>

\* Add, the cache is full: the key and the value of the item, its bit and
\* the hand moved past it
AddEjectItem(t) ==
    /\ At(t, "Add", "write")
    /\ items' = EjectItems(pc[t].key, pc[t].arg, pc[t].idx)
    /\ bits' = [bits EXCEPT ![handIdx] = And(@, items[pc[t].idx].bit)]
    /\ LET mask == Shl(AllOnes, TrailingZeros64(pc[t].mbits) + 1)
       IN  IF mask = 0
           THEN /\ handMask' = AllOnes
                /\ handIdx' = NextWord(handIdx)
           ELSE /\ handMask' = mask
                /\ handIdx' = handIdx
    /\ pc' = [pc EXCEPT ![t].at = "Unlock"]
    /\ UNCHANGED <<mu, idx, len, svars>>

\* Delete(key): c.mu.Lock()
GoDelete(t, key) == Lock(t, "Delete", key, 0, "lookup")

\* Delete: idx, ok = c.idx[key]; value = c.items[idx].value;
\* delete(c.idx, key); c.len--
DeleteLookup(t) ==
    /\ At(t, "Delete", "lookup")
    /\ IF pc[t].key \in DOMAIN idx
       THEN /\ idx' = MapDelete(idx, pc[t].key)
            /\ len' = len - 1
            /\ pc' = [pc EXCEPT ![t].idx = idx[pc[t].key], ![t].ok = TRUE,
                                ![t].val = items[idx[pc[t].key]].value,
                                ![t].at = IF len - 1 # idx[pc[t].key]
                                          THEN "move" ELSE "clear"]
       ELSE /\ pc' = [pc EXCEPT ![t].at = "Unlock"]
            /\ UNCHANGED <<idx, len>>
    /\ UNCHANGED <<mu, items, bits, handIdx, handMask, svars>>

\* Delete: the last item replaces the deleted one
DeleteMove(t) ==
    /\ At(t, "Delete", "move")
    /\ idx' = MovedIdx(pc[t].key, pc[t].idx, len)
    /\ items' = MovedItems(pc[t].idx, len)
    /\ bits' = MovedBits(pc[t].idx, len)
    /\ pc' = [pc EXCEPT ![t].at = "clear"]
    /\ UNCHANGED <<mu, handIdx, handMask, len, svars>>

\* Delete: c.items[c.len] = item[K, V]{}
DeleteClear(t) ==
    /\ At(t, "Delete", "clear")
    /\ items' = [items EXCEPT ![len] = ZeroItem]
    /\ pc' = [pc EXCEPT ![t].at = "Unlock"]
    /\ UNCHANGED <<mu, idx, bits, handIdx, handMask, len, svars>>

\* Reset(): c.mu.Lock()
GoReset(t) == Lock(t, "Reset", 0, 0, "clear")

\* Reset: the index, c.len, the items and the hand
ResetClear(t) ==
    /\ At(t, "Reset", "clear")
    /\ idx' = EmptyIdx
    /\ len' = 0
    /\ items' = [i \in DOMAIN items |-> ZeroItem]
    /\ handIdx' = 0
    /\ handMask' = AllOnes
    /\ pc' = [pc EXCEPT ![t].at = "Unlock"]
    /\ UNCHANGED <<mu, bits, svars>>

\* Items(), iterated by a consumer that stops at the pair number stop, or
\* never when stop = 0: c.mu.Lock()
GoItems(t, stop) == Lock(t, "Items", 0, stop, "range")

\* the loop that returns when yield returns false
ItemsYieldReturns(t) ==
    /\ At(t, "Items", "range")
    /\ \E k \in (DOMAIN idx) \ pc[t].seen :
          pc' = IF Cardinality(pc[t].seen) + 1 = pc[t].arg
                THEN [pc EXCEPT ![t] = Returned("Items", FALSE)]
                ELSE [pc EXCEPT ![t].seen = @ \cup {k}]
    /\ UNCHANGED <<mu, cvars, svars>>

\* Items: yield(k, c.items[idx].value) for a key not yet seen, and break
\* when yield returns false
ItemsYield(t) ==
    /\ At(t, "Items", "range")
    /\ \E k \in (DOMAIN idx) \ pc[t].seen :
          pc' = [pc EXCEPT ![t].seen = @ \cup {k},
                           ![t].at = IF Cardinality(pc[t].seen) + 1 = pc[t].arg
                                     THEN "Unlock" ELSE "range"]
    /\ UNCHANGED <<mu, cvars, svars>>

\* Items: the loop has seen every key; ok tells that it ran to its end
ItemsEnd(t) ==
    /\ At(t, "Items", "range")
    /\ pc[t].seen = DOMAIN idx
    /\ pc' = [pc EXCEPT ![t].ok = TRUE, ![t].at = "Unlock"]
    /\ UNCHANGED <<mu, cvars, svars>>

\* Len(): no lock is taken
GoLen(t) ==
    /\ Ready(t)
    /\ pc' = [pc EXCEPT ![t] = Call("Len", 0, 0, "load")]
    /\ UNCHANGED <<mu, cvars, svars>>

\* Len: return c.len
LenLoad(t) ==
    /\ At(t, "Len", "load")
    /\ pc' = [pc EXCEPT ![t] = [Returned("Len", TRUE) EXCEPT !.val = len]]
    /\ UNCHANGED <<mu, cvars, svars>>

\* Cap(): no lock is taken
GoCap(t) ==
    /\ Ready(t)
    /\ pc' = [pc EXCEPT ![t] = Call("Cap", 0, 0, "load")]
    /\ UNCHANGED <<mu, cvars, svars>>

\* Cap: return cap(c.items)
CapLoad(t) ==
    /\ At(t, "Cap", "load")
    /\ pc' = [pc EXCEPT ![t] = [Returned("Cap", TRUE) EXCEPT !.val = Cap]]
    /\ UNCHANGED <<mu, cvars, svars>>

\* New returns to the goroutine that made the cache, then the goroutines
\* call its methods
NextGo ==
    \/ Return
    \/ \E t \in Procs, key \in GoKeys : GoGet(t, key)
    \/ \E t \in Procs : GetLookup(t)
    \/ \E t \in Procs : GetAnd(t)
    \/ \E t \in Procs, key \in GoKeys : GoHas(t, key)
    \/ \E t \in Procs : HasLookup(t)
    \/ \E t \in Procs : RUnlock(t)
    \/ \E t \in Procs, key \in GoKeys, value \in Vals : GoAdd(t, key, value)
    \/ \E t \in Procs : AddLookup(t)
    \/ \E t \in Procs : AddOverrideValue(t)
    \/ \E t \in Procs : AddAppendItem(t)
    \/ \E t \in Procs : AddAppendIdx(t)
    \/ \E t \in Procs : AddSweep(t)
    \/ \E t \in Procs : AddEjectIdx(t)
    \/ \E t \in Procs : AddEjectItem(t)
    \/ \E t \in Procs, key \in GoKeys : GoDelete(t, key)
    \/ \E t \in Procs : DeleteLookup(t)
    \/ \E t \in Procs : DeleteMove(t)
    \/ \E t \in Procs : DeleteClear(t)
    \/ \E t \in Procs : GoReset(t)
    \/ \E t \in Procs : ResetClear(t)
    \/ \E t \in Procs, stop \in 0 .. MaxBreak : GoItems(t, stop)
    \/ \E t \in Procs : ItemsYield(t)
    \/ \E t \in Procs : ItemsEnd(t)
    \/ \E t \in Procs : Unlock(t)
    \/ \E t \in Procs : GoLen(t)
    \/ \E t \in Procs : LenLoad(t)
    \/ \E t \in Procs : GoCap(t)
    \/ \E t \in Procs : CapLoad(t)

SpecGo == Init /\ [][NextGo]_vars

----------------------------------------------------------------------------
(* The search of Add followed load by load.  One goroutine calls the       *)
(* methods as above, with the keys of Keys so that a cache of two words    *)
(* gets full, and Add runs the search one load of a word at a time.  The   *)
(* goroutine always gets the lock: what the other goroutines may do while  *)
(* it has it is the matter of SpecGo.                                      *)

\* the goroutines that call the cache
Callers == {1}

\* the count of loads once one more word is loaded, kept below a bound
MoreLoads(n) == IF n < NumWords + 2 THEN n + 1 ELSE n

\* the first load that leaves the bit map: the bits of c.handMask are not
\* set in the word of the hand when none of them is ejectable
AddSweepFirstNoOr(t) ==
    /\ At(t, "Add", "sweep")
    /\ LET mbits == And(bits[handIdx], handMask)
       IN  IF mbits = 0
           THEN /\ handMask' = AllOnes
                /\ handIdx' = NextWord(handIdx)
                /\ pc' = [pc EXCEPT ![t].loads = 1, ![t].at = "loop"]
                /\ UNCHANGED bits
           ELSE /\ pc' = [pc EXCEPT ![t].mbits = mbits, ![t].loads = 1,
                                    ![t].idx = handIdx * WordBits + TrailingZeros64(mbits),
                                    ![t].at = "eject"]
                /\ UNCHANGED <<bits, handIdx, handMask>>
    /\ UNCHANGED <<mu, idx, items, len, svars>>

\* Add, the cache is full: mbits := c.bits[c.handIdx].Load() & c.handMask;
\* when it is zero, the Or of c.handMask and the hand moved to the next word
AddSweepFirst(t) ==
    /\ At(t, "Add", "sweep")
    /\ LET mbits == And(bits[handIdx], handMask)
       IN  IF mbits = 0
           THEN /\ bits' = [bits EXCEPT ![handIdx] = Or(@, handMask)]
                /\ handMask' = AllOnes
                /\ handIdx' = NextWord(handIdx)
                /\ pc' = [pc EXCEPT ![t].loads = 1, ![t].at = "loop"]
           ELSE /\ pc' = [pc EXCEPT ![t].mbits = mbits, ![t].loads = 1,
                                    ![t].idx = handIdx * WordBits + TrailingZeros64(mbits),
                                    ![t].at = "eject"]
                /\ UNCHANGED <<bits, handIdx, handMask>>
    /\ UNCHANGED <<mu, idx, items, len, svars>>

\* Add, the cache is full: one turn of the loop, mbits = c.bits[c.handIdx].Load();
\* when it is zero, the Store of all ones and the hand moved to the next word
AddSweepWord(t) ==
    /\ At(t, "Add", "loop")
    /\ LET mbits == bits[handIdx]
       IN  IF mbits = 0
           THEN /\ bits' = [bits EXCEPT ![handIdx] = AllOnes]
                /\ handIdx' = NextWord(handIdx)
                /\ pc' = [pc EXCEPT ![t].loads = MoreLoads(@)]
           ELSE /\ pc' = [pc EXCEPT ![t].mbits = mbits, ![t].loads = MoreLoads(@),
                                    ![t].idx = handIdx * WordBits + TrailingZeros64(mbits),
                                    ![t].at = "eject"]
                /\ UNCHANGED <<bits, handIdx>>
    /\ UNCHANGED <<mu, idx, items, len, handMask, svars>>

\* a step of the goroutine t inside a call, the search of Add load by load
SweepStep(t) ==
    \/ GetLookup(t) \/ GetAnd(t) \/ HasLookup(t) \/ RUnlock(t)
    \/ AddLookup(t) \/ AddOverrideValue(t) \/ AddAppendItem(t) \/ AddAppendIdx(t)
    \/ AddSweepFirst(t) \/ AddSweepWord(t) \/ AddEjectIdx(t) \/ AddEjectItem(t)
    \/ DeleteLookup(t) \/ DeleteMove(t) \/ DeleteClear(t)
    \/ ResetClear(t) \/ ItemsYield(t) \/ ItemsEnd(t) \/ Unlock(t)
    \/ LenLoad(t) \/ CapLoad(t)

\* New returns to the goroutine that made the cache, then the goroutine
\* calls its methods
NextSweep ==
    \/ Return
    \/ \E t \in Callers, key \in Keys : GoGet(t, key)
    \/ \E t \in Callers : GetLookup(t)
    \/ \E t \in Callers : GetAnd(t)
    \/ \E t \in Callers, key \in Keys : GoHas(t, key)
    \/ \E t \in Callers : HasLookup(t)
    \/ \E t \in Callers : RUnlock(t)
    \/ \E t \in Callers, key \in Keys : GoAdd(t, key, 0)
    \/ \E t \in Callers : AddLookup(t)
    \/ \E t \in Callers : AddOverrideValue(t)
    \/ \E t \in Callers : AddAppendItem(t)
    \/ \E t \in Callers : AddAppendIdx(t)
    \/ \E t \in Callers : AddSweepFirst(t)
    \/ \E t \in Callers : AddSweepWord(t)
    \/ \E t \in Callers : AddEjectIdx(t)
    \/ \E t \in Callers : AddEjectItem(t)
    \/ \E t \in Callers, key \in Keys : GoDelete(t, key)
    \/ \E t \in Callers : DeleteLookup(t)
    \/ \E t \in Callers : DeleteMove(t)
    \/ \E t \in Callers : DeleteClear(t)
    \/ \E t \in Callers : GoReset(t)
    \/ \E t \in Callers : ResetClear(t)
    \/ \E t \in Callers, stop \in 0 .. MaxBreak : GoItems(t, stop)
    \/ \E t \in Callers : ItemsYield(t)
    \/ \E t \in Callers : ItemsEnd(t)
    \/ \E t \in Callers : Unlock(t)
    \/ \E t \in Callers : GoLen(t)
    \/ \E t \in Callers : LenLoad(t)
    \/ \E t \in Callers : GoCap(t)
    \/ \E t \in Callers : CapLoad(t)

\* A goroutine inside a call goes on: the Go scheduler runs every goroutine
\* that can run, and a call that has the lock waits for nothing.
SpecSweep ==
    /\ Init
    /\ [][NextSweep]_vars
    /\ \A t \in Callers : WF_vars(SweepStep(t))

----------------------------------------------------------------------------
(* Vocabulary of the properties.  A cache c is a record of the fields, as  *)
(* Cache; in a state where a call has returned, ret.pre is the cache the   *)
(* call found and Cache is the cache it left.                              *)

\* key k is present in the cache c
Present(c, k) == k \in DOMAIN c.idx

\* the value Get(k) finds in the cache c
ValueOf(c, k) == c.items[c.idx[k]].value

\* the item at position i of the cache c is ejectable
Ejectable(c, i) == BitSet(c.bits[i \div WordBits], i % WordBits)

\* the cache c is full
Full(c) == c.len = Cardinality(DOMAIN c.items)

\* the last call was Add(key, ...) of an absent key on a full cache
Ejected == ret.op = "Add" /\ Full(ret.pre) /\ ~Present(ret.pre, ret.key)

\* the last call was a Delete that found its key
Deleted == ret.op = "Delete" /\ Present(ret.pre, ret.key)

----------------------------------------------------------------------------
\* C1: in every state reachable from New by Add, Get, Has, Delete, Reset and
\* Items, the index has exactly Len() entries, every indexed pair (k, i) has
\* 0 <= i < Len() and slot i holds key k, and every slot below Len() holds a
\* key the index maps back to it.
C1_IndexAgreesWithSlots ==
    /\ Cardinality(DOMAIN idx) = CacheLen
    /\ \A k \in DOMAIN idx :
          /\ idx[k] \in 0 .. (CacheLen - 1)
          /\ items[idx[k]].key = k
    /\ \A i \in 0 .. (CacheLen - 1) :
          /\ items[i].key \in DOMAIN idx
          /\ idx[items[i].key] = i

\* a Delete has moved the last item of a cache in which Add has ejected items
C1_Witness ==
    /\ Deleted
    /\ ret.pre.idx[ret.key] # ret.pre.len - 1
    /\ handMask # AllOnes
    /\ CacheLen >= 2

\* C2: after Add(k, v), a later Get(k) returns (v, true) as long as no call
\* in between ejected k, deleted k, overwrote k or reset the cache (added
\* holds exactly these pairs).
C2_RoundTrip ==
    (ret.op = "Get" /\ ret.key \in DOMAIN added) =>
        (ret.ok /\ ret.val = added[ret.key])

\* a Get has returned the value of a key added to a full cache that has
\* ejected items and overridden none since
C2_Witness ==
    /\ ret.op = "Get"
    /\ ret.key \in DOMAIN added
    /\ ret.val = 1
    /\ Full(ret.pre)
    /\ handMask # AllOnes

\* C3: Add returns (previous value, true) and leaves Len() when the key is
\* present, (default value, false) and Len() + 1 when the key is absent and
\* the cache is not full, (value of the ejected item, true) and leaves Len()
\* when the key is absent and the cache is full.
C3_AddResult ==
    ret.op = "Add" =>
        IF Present(ret.pre, ret.key)
        THEN /\ ret.ok
             /\ ret.val = ValueOf(ret.pre, ret.key)
             /\ CacheLen = ret.pre.len
        ELSE IF ~Full(ret.pre)
        THEN /\ ~ret.ok
             /\ ret.val = 0
             /\ CacheLen = ret.pre.len + 1
        ELSE /\ ret.ok
             /\ \E k \in (DOMAIN ret.pre.idx) \ (DOMAIN idx) :
                    ret.val = ValueOf(ret.pre, k)
             /\ CacheLen = ret.pre.len

\* an Add has ejected an item whose value differs from the added one
C3_Witness ==
    /\ Ejected
    /\ ret.ok
    /\ ret.val # ret.arg

\* C4: Len() never exceeds Cap(); an Add of an absent key to a full cache
\* removes exactly one present key, installs the new key, leaves every other
\* key present with its value, and keeps Len() = Cap().
C4_CapacityBound ==
    /\ CacheLen <= Cap
    /\ Ejected =>
          /\ Cardinality((DOMAIN ret.pre.idx) \ (DOMAIN idx)) = 1
          /\ (DOMAIN idx) \ (DOMAIN ret.pre.idx) = {ret.key}
          /\ ValueOf(Cache, ret.key) = ret.arg
          /\ \A k \in (DOMAIN ret.pre.idx) \cap (DOMAIN idx) :
                ValueOf(Cache, k) = ValueOf(ret.pre, k)
          /\ CacheLen = Cap

\* an Add has ejected an item of a cache of two words
C4_Witness ==
    /\ Ejected
    /\ NumWords = 2
    /\ CacheLen = Cap

\* The positions of the cache c in ascending circular order from the hand:
\* the hand is on the lowest bit of c.handMask in the word c.handIdx.
HandPos(c) == c.handIdx * WordBits + TrailingZeros64(c.handMask)

Circular(c, n) == (HandPos(c) + n) % Cardinality(DOMAIN c.items)

\* the first ejectable position of c in that order
FirstEjectable(c) ==
    LET n == CHOOSE m \in 0 .. (Cardinality(DOMAIN c.items) - 1) :
                 /\ Ejectable(c, Circular(c, m))
                 /\ \A l \in 0 .. (m - 1) : ~Ejectable(c, Circular(c, l))
    IN  Circular(c, n)

\* C5: when the cache is full and some item is ejectable, Add of an absent
\* key ejects the first ejectable item in ascending circular order from the
\* hand: its value is returned, its key is no longer present and the new key
\* takes its position.
C5_EvictionVictim ==
    (Ejected /\ \E i \in DOMAIN ret.pre.items : Ejectable(ret.pre, i)) =>
        LET v == FirstEjectable(ret.pre)
        IN  /\ ret.val = ret.pre.items[v].value
            /\ ~Present(Cache, ret.pre.items[v].key)
            /\ idx[ret.key] = v

\* an Add has ejected the only ejectable item of a cache of two words, found
\* below the hand after a full circle
C5_Witness ==
    /\ Ejected
    /\ NumWords = 2
    /\ Cardinality({i \in DOMAIN ret.pre.items : Ejectable(ret.pre, i)}) = 1
    /\ idx[ret.key] < HandPos(ret.pre)
    /\ ret.pre.handIdx = 1

\* the last call found its key, ejectable, in a full cache
FoundEjectable ==
    /\ Full(ret.pre)
    /\ Present(ret.pre, ret.key)
    /\ Ejectable(ret.pre, ret.pre.idx[ret.key])

\* the Add of an absent key to a full cache that follows a Get of lastGet
EjectedAfterGet == Ejected /\ lastGet # NoKey

\* no item of the cache c is ejectable
NoneEjectable(c) == \A i \in DOMAIN c.items : ~Ejectable(c, i)

\* C6 as stated: in a full cache, Has(k) of a present ejectable k leaves its
\* item ejectable; Get(k) clears its bit and the Add of an absent key that
\* follows at once does not eject k.
C6_SecondChanceAlways ==
    /\ (ret.op = "Has" /\ FoundEjectable) => Ejectable(Cache, idx[ret.key])
    /\ (ret.op = "Get" /\ FoundEjectable) => ~Ejectable(Cache, idx[ret.key])
    /\ EjectedAfterGet => Present(Cache, lastGet)

\* C6 amended: the same, but the Add that follows the Get does eject k when
\* no item is ejectable after the Get and the hand is on the item of k: the
\* search then makes the items ejectable again and takes the one under the
\* hand.
C6_SecondChance ==
    /\ (ret.op = "Has" /\ FoundEjectable) => Ejectable(Cache, idx[ret.key])
    /\ (ret.op = "Get" /\ FoundEjectable) => ~Ejectable(Cache, idx[ret.key])
    /\ EjectedAfterGet =>
          (Present(Cache, lastGet) <=>
              ~(NoneEjectable(ret.pre) /\ ret.pre.idx[lastGet] = HandPos(ret.pre)))

\* an Add has followed a Get of the key under the hand and has ejected the
\* next ejectable item
C6_Witness ==
    /\ EjectedAfterGet
    /\ ret.pre.idx[lastGet] = HandPos(ret.pre)
    /\ Present(Cache, lastGet)
    /\ NumWords = 2

\* C7: Has(k), and Get(k) of an absent k, change nothing of the cache; Has
\* returns true exactly when k is present.
C7_ReadsChangeNothing ==
    /\ ret.op = "Has" =>
          /\ Cache = ret.pre
          /\ ret.ok = Present(ret.pre, ret.key)
    /\ (ret.op = "Get" /\ ~Present(ret.pre, ret.key)) =>
          /\ Cache = ret.pre
          /\ ~ret.ok
          /\ ret.val = 0

\* a Has has found a key whose item is ejectable
C7_Witness ==
    /\ ret.op = "Has"
    /\ ret.ok
    /\ Ejectable(ret.pre, ret.pre.idx[ret.key])
    /\ Ejectable(Cache, idx[ret.key])

\* C8: Delete(k) of a present key returns (value of k, true), decreases
\* Len() by one, removes k and leaves every other key present with its
\* value; Delete(k) of an absent key returns (default value, false) and
\* changes nothing.
C8_DeleteResult ==
    ret.op = "Delete" =>
        IF Present(ret.pre, ret.key)
        THEN /\ ret.ok
             /\ ret.val = ValueOf(ret.pre, ret.key)
             /\ CacheLen = ret.pre.len - 1
             /\ DOMAIN idx = (DOMAIN ret.pre.idx) \ {ret.key}
             /\ \A k \in DOMAIN idx : ValueOf(Cache, k) = ValueOf(ret.pre, k)
        ELSE /\ ~ret.ok
             /\ ret.val = 0
             /\ Cache = ret.pre

\* a Delete has removed an item that was not the last one, whose value
\* differs from the value of the last one
C8_Witness ==
    /\ Deleted
    /\ ret.pre.idx[ret.key] # ret.pre.len - 1
    /\ ret.val # ret.pre.items[ret.pre.len - 1].value

\* C9: when Delete removes the item at a position i that is not the last
\* one, the last item is moved to i, stays retrievable with its value, and
\* bit i after the Delete is the ejectable bit the last item had before it.
C9_BitTravelsWithItem ==
    (Deleted /\ ret.pre.idx[ret.key] # ret.pre.len - 1) =>
        LET i == ret.pre.idx[ret.key]
            n == ret.pre.len - 1
        IN  /\ idx[ret.pre.items[n].key] = i
            /\ items[i].value = ret.pre.items[n].value
            /\ Ejectable(Cache, i) = Ejectable(ret.pre, n)

\* C10: Items() run to its end yields exactly Len() pairs, every present key
\* once with its value and nothing else; no Items() call changes the cache.
C10_ItemsYieldsContent ==
    ret.op = "Items" =>
        /\ Cache = ret.pre
        /\ ret.ok =>
              /\ BagCardinality(ret.pairs) = CacheLen
              /\ \A k \in DOMAIN idx : CopiesIn(<<k, ValueOf(Cache, k)>>, ret.pairs) = 1
              /\ \A pr \in BagToSet(ret.pairs) :
                    /\ Present(Cache, pr[1])
                    /\ pr[2] = ValueOf(Cache, pr[1])

\* a full iteration of a full cache holding ejectable items and both values
C10_Witness ==
    /\ ret.op = "Items"
    /\ ret.ok
    /\ Full(ret.pre)
    /\ BagCardinality(ret.pairs) = Cap
    /\ \E i \in DOMAIN items : Ejectable(Cache, i)
    /\ \E i, j \in DOMAIN items : items[i].value # items[j].value

\* the cache just after Init with the capacity of the cache c
AfterInit(c) ==
    [idx |-> EmptyIdx,
     items |-> [i \in DOMAIN c.items |-> ZeroItem],
     bits |-> [w \in DOMAIN c.bits |-> IF w = 0 THEN AllOnes ELSE 0],
     handIdx |-> 0, handMask |-> AllOnes, len |-> 0]

\* C11: whatever the calls that preceded it, Reset() leaves the cache in the
\* state it had just after Init with the same capacity: Len() is 0, no key is
\* present, every item is the default one, the hand is at word 0 with a full
\* mask, word 0 of the bit map is all ones and the other words are zero, and
\* Cap() is unchanged.
C11_ResetRestoresInit ==
    ret.op = "Reset" => Cache = AfterInit(ret.pre)

\* the cache c is as a call of Init that returned leaves it, but for c.len
\* which Init does not assign
LeftByInit(c) ==
    /\ DOMAIN c.items # {}
    /\ [c EXCEPT !.len = 0] = AfterInit(c)

\* C12: Init(capacity) on a cache in any state, one that holds entries
\* included, discards the content: just after it Len() is 0, no key is
\* present, 0 <= Len() <= Cap(), Items() yields nothing, and the Add of any
\* key that follows is a fresh append that returns (default value, false).
C12_InitDiscardsContent ==
    /\ ret.op = "Init" =>
          /\ CacheLen = 0
          /\ DOMAIN idx = {}
          /\ 0 <= CacheLen /\ CacheLen <= Cap
    /\ (ret.op = "Items" /\ LeftByInit(ret.pre)) => ret.pairs = EmptyBag
    /\ (ret.op \in {"Add", "Add panics"} /\ LeftByInit(ret.pre)) =>
          /\ ret.op = "Add"
          /\ ~ret.ok
          /\ ret.val = 0
          /\ CacheLen = 1
          /\ Present(Cache, ret.key)

\* C13: for every requested capacity Init (and so New) succeeds, and Cap()
\* is a positive multiple of the word size: the smallest one that is >= the
\* request, and one word when the request is zero, negative or below a word.
C13_CapacityRounded ==
    ret.op \in {"Init", "Init panics"} =>
        /\ ret.op = "Init"
        /\ LET want == IF ret.arg < 1 THEN 1 ELSE ret.arg
           IN  /\ Cap > 0
               /\ Cap % WordBits = 0
               /\ Cap >= want
               /\ Cap < want + WordBits

\* the cache c was never initialized: its table has no position
Uninitialized(c) == DOMAIN c.items = {}

\* C14: on a cache that was never initialized (neither New nor Init), every
\* Get, Has, Add, Delete and Items ends in a panic: none returns.
C14_UninitializedPanics ==
    ret.op \in {"Get", "Has", "Add", "Delete", "Items"} => ~Uninitialized(ret.pre)

\* the goroutine t is in the critical section of a Get or a Has
Reading(t) == pc[t].op \in {"Get", "Has"} /\ pc[t].at # "done"

\* the goroutine t is in the critical section of an Add, a Delete, a Reset
\* or an Items
Writing(t) == pc[t].op \in {"Add", "Delete", "Reset", "Items"} /\ pc[t].at # "done"

\* the goroutine t is a Get that has found its key and cleared its bit
Cleared(t) == pc[t].op = "Get" /\ pc[t].at = "RUnlock" /\ pc[t].ok

\* what a Get or a Has in its critical section has found so far
ReadsFound ==
    \A t \in Procs :
        /\ (Reading(t) /\ pc[t].at # "lookup") => pc[t].ok = Present(Cache, pc[t].key)
        /\ (pc[t].op = "Get" /\ pc[t].at # "done" /\ pc[t].ok) =>
              /\ pc[t].val = ValueOf(Cache, pc[t].key)
              /\ pc[t].idx = idx[pc[t].key]
        /\ Cleared(t) => ~Ejectable(Cache, pc[t].idx)

\* a step made while no goroutine is in an Add, a Delete, a Reset or an
\* Items leaves Len(), the index, the items and the hand, and changes no bit
\* but the one of a Get that clears it in this step
ReadsStep ==
    (mu.w = 0 /\ mu'.w = 0) =>
        /\ UNCHANGED <<idx, items, len, handIdx, handMask>>
        /\ \A i \in DOMAIN items :
              \/ BitSet(bits'[i \div WordBits], i % WordBits) = Ejectable(Cache, i)
              \/ /\ ~BitSet(bits'[i \div WordBits], i % WordBits)
                 /\ \E t \in Procs : /\ pc'[t].idx = i
                                     /\ pc'[t].op = "Get" /\ pc'[t].at = "RUnlock" /\ pc'[t].ok
                                     /\ pc[t].at # "RUnlock"

\* C15: for Get and Has calls that run concurrently under the read lock, in
\* every interleaving: Len(), the index and the items never change, each Get
\* returns the value stored for its key, the bit of an item hit by a Get is
\* clear from its And on and until the Get returns, and no other bit changes
\* (no clear is lost, also for two Gets on items of the same word).
C15_ConcurrentReads == [](ReadsFound) /\ [][ReadsStep]_vars

\* two Gets have cleared the bits, both set before, of two items of the same
\* word and hold the read lock
C15_Witness ==
    \E t, u \in Procs :
        /\ t # u
        /\ Cleared(t) /\ Cleared(u)
        /\ pc[t].idx # pc[u].idx
        /\ pc[t].idx \div WordBits = pc[u].idx \div WordBits
        /\ mu.r = {t, u}
        /\ bits[pc[t].idx \div WordBits] = 0
        /\ len = Cap

\* the goroutine t is between two calls
Back(t) == pc[t].at = "done"

\* a step of the goroutine t inside a call
Step(t) ==
    \/ GetLookup(t) \/ GetAnd(t) \/ HasLookup(t) \/ RUnlock(t)
    \/ AddLookup(t) \/ AddOverrideValue(t) \/ AddAppendItem(t) \/ AddAppendIdx(t)
    \/ AddSweep(t) \/ AddEjectIdx(t) \/ AddEjectItem(t)
    \/ DeleteLookup(t) \/ DeleteMove(t) \/ DeleteClear(t)
    \/ ResetClear(t) \/ ItemsYield(t) \/ ItemsEnd(t) \/ Unlock(t)
    \/ LenLoad(t) \/ CapLoad(t)

\* C16: an Items() traversal releases the lock when it ends, whether the
\* sequence is exhausted or the consumer stops early: a goroutine back from
\* a call holds neither the lock nor the read lock, so that once the
\* goroutines are back any Get, Has, Add, Delete or Items gets the lock, and
\* a call that has the lock always has a next step, up to its return.
C16_ItemsReleasesLock ==
    /\ \A t \in Procs : Back(t) => (mu.w # t /\ t \notin mu.r)
    /\ (ret = NoCall /\ \A t \in Procs : Back(t)) =>
          \A t \in Procs :
              /\ ENABLED GoGet(t, 0)
              /\ ENABLED GoHas(t, 0)
              /\ ENABLED GoAdd(t, 0, 0)
              /\ ENABLED GoDelete(t, 0)
              /\ ENABLED GoItems(t, 0)
    /\ \A t \in Procs : (ret = NoCall /\ ~Back(t)) => ENABLED Step(t)

\* a goroutine has got the lock for an Add after the consumer of an Items of
\* another goroutine has stopped early
C16_Witness ==
    \E t, u \in Procs :
        /\ pc[t] = Returned("Items", FALSE)
        /\ pc[u].op = "Add"
        /\ pc[u].at = "Unlock"
        /\ mu.w = u
        /\ len > 1

\* the index and the table agree, as a Get or a Has finds them
IndexAgrees ==
    /\ \A k \in DOMAIN idx :
          /\ idx[k] \in 0 .. (len - 1)
          /\ items[idx[k]].key = k
    /\ Cardinality(DOMAIN idx) = len

\* C17: while a goroutine is in the critical section of an Add, a Delete, a
\* Reset or an Items, no other goroutine is in the critical section of any
\* of them nor of a Get or a Has (several Get and Has may be in theirs at a
\* time); so a Get or a Has in its critical section finds every entry of the
\* index pointing at an item that holds its key, never an Add or a Delete
\* half done.
C17_MutualExclusion ==
    /\ \A t, u \in Procs :
          (t # u /\ Writing(t)) => ~(Writing(u) \/ Reading(u))
    /\ (\E t \in Procs : Reading(t)) => IndexAgrees

\* an Add has put its key in the index at the position of an item that
\* still holds the ejected key, while the other goroutine, back from a Get,
\* is out of the cache
C17_Witness ==
    \E t, u \in Procs :
        /\ pc[t].op = "Add" /\ pc[t].at = "write"
        /\ ~IndexAgrees
        /\ pc[u] = Returned("Get", TRUE)

\* two goroutines are in the critical sections of a Get and of a Has
C17_ReadersShare ==
    \E t, u \in Procs :
        /\ pc[t].op = "Get" /\ pc[t].at = "And"
        /\ pc[u].op = "Has" /\ pc[u].at = "RUnlock"
        /\ mu.r = {t, u}

\* the goroutine t is in a call, at a place where it reads or writes the
\* fields of the cache
InCall(t) == ~Back(t)

\* the goroutine t is in an Add, a Delete or a Reset, between its Lock and
\* its Unlock
Modifying(t) == pc[t].op \in {"Add", "Delete", "Reset"} /\ ~Back(t)

\* C18: every read of the state of the cache by a method, the read of c.len
\* by Len() and of c.items by Cap() included, is made with the lock or the
\* read lock held; so no Len() or Cap() reads while an Add, a Delete or a
\* Reset is in the middle of its changes.
C18_ReadsUnderLock ==
    /\ \A t \in Procs : InCall(t) => (mu.w = t \/ t \in mu.r)
    /\ \A t, u \in Procs :
          (pc[t].op \in {"Len", "Cap"} /\ pc[t].at = "load") => ~Modifying(u)

\* Len() is about to read c.len while an Add that appends is between the
\* write of the item and c.len++
C18_LenRaces ==
    \E t, u \in Procs :
        /\ pc[t].op = "Len" /\ pc[t].at = "load"
        /\ pc[u].op = "Add" /\ pc[u].at = "index"

\* the word of the hand of the cache c has no ejectable bit under the mask
\* of the hand: the search of Add leaves this word
Exhausted(c) == And(c.bits[c.handIdx], c.handMask) = 0

\* the number of words from the word of the hand of c to the word w, in
\* circular order
WordsFromHand(c, w) ==
    (w + Cardinality(DOMAIN c.bits) - c.handIdx) % Cardinality(DOMAIN c.bits)

\* The words the search of Add passes over in the cache c, when the word of
\* the hand is exhausted: this word, and the words after it that have no
\* ejectable bit, up to the first word that has one.
Passed(c) ==
    {c.handIdx} \cup
    {w \in DOMAIN c.bits :
        /\ w # c.handIdx
        /\ \A k \in 1 .. WordsFromHand(c, w) :
              c.bits[(c.handIdx + k) % Cardinality(DOMAIN c.bits)] = 0}

\* the word x without the bit of the position i, when i is a position of the
\* word w
Written(x, w, i) ==
    IF i \div WordBits = w THEN And(x, Not(Shl(1, i % WordBits))) ELSE x

\* C19 as stated: every word the search of an Add passes over, the first one
\* under a partial mask included, is set to all ones as a whole, and has all
\* its bits set after the Add returns.  The claim is read to its advantage:
\* the bit of the item the Add writes once the search is over is left out.
C19_SweepSetsWholeWords ==
    (Ejected /\ Exhausted(ret.pre)) =>
        \A w \in Passed(ret.pre) : bits[w] = Written(AllOnes, w, idx[ret.key])

\* C19 amended: the first word gets the bits of the mask of the hand set and
\* keeps its bits below the mask, every further word passed over is set to
\* all ones; after the Add returns the words are so, but for the bit of the
\* item the Add has written when the search came back to the first word.
C19_SweepSetsMaskedBits ==
    (Ejected /\ Exhausted(ret.pre)) =>
        \A w \in Passed(ret.pre) :
            bits[w] = Written(IF w = ret.pre.handIdx
                              THEN Or(ret.pre.bits[w], ret.pre.handMask)
                              ELSE AllOnes,
                              w, idx[ret.key])

\* the search of an Add has left the first word under a partial mask, with a
\* bit below the mask clear, has set the second word and has come back
C19_Witness ==
    /\ Ejected
    /\ Exhausted(ret.pre)
    /\ ret.pre.handMask # AllOnes
    /\ Cardinality(Passed(ret.pre)) = 2
    /\ idx[ret.key] \div WordBits = ret.pre.handIdx
    /\ bits[ret.pre.handIdx] = 0
    /\ \E w \in DOMAIN bits : bits[w] = AllOnes

\* the last call was a Get, a Has, a Delete, an Items, or an Add that has
\* overridden a value or appended an item
HandNotUsed ==
    \/ ret.op \in {"Get", "Has", "Delete", "Items"}
    \/ ret.op = "Add" /\ (Present(ret.pre, ret.key) \/ ~Full(ret.pre))

\* C20: in every reachable state the mask of the hand is not zero and is all
\* ones shifted left by some count below the word size, and the word of the
\* hand is a word of the bit map, 0 <= handIdx < Cap()/64; Get, Has, Delete,
\* Items, an Add that overrides and an Add that appends leave the hand.
C20_HandWellFormed ==
    /\ handMask # 0
    /\ \E n \in 0 .. (WordBits - 1) : handMask = Shl(AllOnes, n)
    /\ 0 <= handIdx /\ handIdx < Cap \div WordBits
    /\ HandNotUsed => (handIdx = ret.pre.handIdx /\ handMask = ret.pre.handMask)

\* an Add has ejected the item of the last bit of the last word: the mask
\* shifted out, the hand is back on word 0 with a full mask
C20_Witness ==
    /\ Ejected
    /\ NumWords = 2
    /\ idx[ret.key] = Cap - 1
    /\ ret.pre.handIdx = 1
    /\ ret.pre.handMask # AllOnes
    /\ handIdx = 0
    /\ handMask = AllOnes

\* the path an Add has taken
Overridden == ret.op = "Add" /\ Present(ret.pre, ret.key)
Appended == ret.op = "Add" /\ ~Present(ret.pre, ret.key) /\ ~Full(ret.pre)

\* no item of the cache c is ejectable: the bits of the positions below
\* c.len are clear
NoItemEjectable(c) == \A i \in 0 .. (c.len - 1) : ~Ejectable(c, i)

\* C21: when Add(k, v) has returned, by an append, an override or an
\* ejection, k is in the cache and the bit of its position is clear; an Add
\* that appends or overrides in a cache with no ejectable item leaves no
\* ejectable item, so a cache filled from empty (no item, whatever its bit
\* map) by such Adds has no ejectable position once it is full.
C21_AddedIsReferenced ==
    /\ ret.op = "Add" =>
           /\ Present(Cache, ret.key)
           /\ ~Ejectable(Cache, idx[ret.key])
    /\ ((Overridden \/ Appended) /\ NoItemEjectable(ret.pre)) =>
           /\ NoItemEjectable(Cache)
           /\ Full(Cache) => NoneEjectable(Cache)

\* an Add has appended the last item of a cache with no ejectable item whose bit
\* map had the bit of that position set, and no position is ejectable
C21_Witness ==
    /\ Appended
    /\ Full(Cache)
    /\ NumWords = 2
    /\ NoItemEjectable(ret.pre)
    /\ Ejectable(ret.pre, ret.pre.len)
    /\ ret.pre.handMask = AllOnes /\ ret.pre.handIdx = 0
    /\ NoneEjectable(Cache)

\* C22: the search of the item to eject ends: in a full cache, whatever
\* the bit map (all bits clear too) and the hand, an Add of an absent key
\* loads at most one word more than the bit map has, finds an item to eject
\* and returns; every call, once it has the lock, returns.
C22_SweepTerminates ==
    /\ [](\A t \in Procs : pc[t].loads <= NumWords + 1)
    /\ \A t \in Callers : (~Back(t)) ~> Back(t)

\* the search has gone the whole circle of a bit map of two words that had
\* no ejectable bit, and found the item to eject in the word where it began
C22_Witness ==
    \E t \in Callers :
        /\ pc[t].op = "Add"
        /\ pc[t].at = "eject"
        /\ NumWords = 2
        /\ pc[t].loads = NumWords + 1
        /\ \A w \in DOMAIN bits : bits[w] # 0

====
